---- MODULE Spec2Model ----
(***************************************************************************)
(* Model of the Milvus similarity backend (src/milvus.py):                 *)
(* MilvusSimilarityConfig and MilvusSimilarityIndex, together with the     *)
(* part of the remote collection (rows, filter expressions, insert,        *)
(* delete, query, search) that the index drives.                           *)
(*                                                                         *)
(* Python values are encoded as follows.                                   *)
(*   - an optional argument is a sequence of length 0 (None) or 1;         *)
(*   - a 2-D embeddings array is a sequence of vectors, a vector is a      *)
(*     sequence of integers;                                               *)
(*   - a filter expression  pk in ["a","b"]  is the record                 *)
(*     [field |-> "pk", lits |-> << "\"a\"", "\"b\"" >>] ;                 *)
(*   - a row returned by a remote query is the record (dict) of its        *)
(*     output fields.                                                      *)
(***************************************************************************)
EXTENDS Integers, Sequences, FiniteSets, TLC

VARIABLES
    config,          \* the MilvusSimilarityConfig (status "unset" before construction)
    has_collection,  \* utility.has_collection(config.collection_name)
    dim,             \* dimension of the remote vector field (0: no collection)
    rows,            \* the rows of the remote collection, in insertion order
    last             \* the last call: operation, arguments, outcome, remote calls issued

vars == <<config, has_collection, dim, rows, last>>

\* ---------------------------------------------------------------- bounds

MaxRows == 2      \* cap on the number of rows of the remote collection
MaxBatch == 2     \* cap on the number of rows / IDs given to one call

\* ---------------------------------------------------------------- values

None == <<>>
Some(v) == <<v>>
IsNone(o) == o = <<>>
Val(o) == o[1]

SampleIds == {"a", "b"}
LabelIds == {"l1", "l2"}
\* the sample that owns each label (patch), as the host dataset records it
OwnerOf(l) == IF l = "l1" THEN "a" ELSE "b"

Vectors == {<<1, 0>>, <<0, 1>>}

Range(s) == {s[i] : i \in DOMAIN s}

RECURSIVE SeqsUpTo(_, _)
SeqsUpTo(S, n) ==
    IF n = 0 THEN {<<>>}
    ELSE LET shorter == SeqsUpTo(S, n - 1)
         IN  shorter \cup {Append(s, x) : s \in {t \in shorter : Len(t) = n - 1}, x \in S}

\* the elements of a set in one fixed order
RECURSIVE SetToSeq(_)
SetToSeq(S) == IF S = {} THEN <<>>
               ELSE LET x == CHOOSE y \in S : TRUE IN <<x>> \o SetToSeq(S \ {x})

NonEmptySeqs(S, n) == SeqsUpTo(S, n) \ {<<>>}

\* ---------------------------------------------------------------- config

\* "mean" aggregation only; max_k; least similarity unsupported
max_k == 16384
supports_least_similarity == FALSE
supported_aggregations == {"mean"}

SupportedMetricNames == {"dotproduct", "euclidean"}
_SUPPORTED_METRICS(m) == IF m = "dotproduct" THEN "IP" ELSE "L2"

\* metric arguments a caller passes: supported names, other strings, None
MetricArgs == {Some("dotproduct"), Some("euclidean"), Some("cosine"), Some("manhattan"), None}

\* MilvusSimilarityConfig.__init__: the outcome of construction
ConfigInit(metric, patches_field) ==
    IF ~IsNone(metric) /\ Val(metric) \notin SupportedMetricNames
    THEN [status |-> "ValueError"]
    ELSE IF IsNone(metric)
    THEN \* _SUPPORTED_METRICS[None] at the first derived block
         [status |-> "KeyError"]
    ELSE [status |-> "ok",
          metric |-> Val(metric),
          patches_field |-> patches_field,
          index_params |-> [metric_type |-> _SUPPORTED_METRICS(Val(metric)),
                            index_type |-> "HNSW",
                            params |-> [M |-> 8, efConstruction |-> 64]],
          search_params |-> [HNSW |-> [metric_type |-> _SUPPORTED_METRICS(Val(metric)),
                                       params |-> [ef |-> 10]]]]

\* ---------------------------------------------------------------- python helpers

\* str(entry) of a string ID, and of a dict {'pk': ...} returned by a remote query
StrOfId(id) == id
StrOfDict(d) == "{'pk': '" \o d.pk \o "'}"

\* '"' + str(entry) + '"'
Quote(s) == "\"" \o s \o "\""

\* f"pk in [{','.join(ids)}]" over the already quoted entries
PkInExpr(quoted) == [field |-> "pk", lits |-> quoted]

\* a string ID compared (==) with a dict is never equal
StrEqDict(id, d) == FALSE

\* _id in existing_ids, existing_ids being what the remote query returned
IdInDicts(id, dicts) == \E i \in DOMAIN dicts : StrEqDict(id, dicts[i])

\* fou.iter_batches(seq, n): consecutive chunks of at most n elements
RECURSIVE iter_batches(_, _)
iter_batches(s, n) ==
    IF Len(s) = 0 THEN <<>>
    ELSE IF Len(s) <= n THEN <<s>>
    ELSE <<SubSeq(s, 1, n)>> \o iter_batches(SubSeq(s, n + 1, Len(s)), n)

Min(a, b) == IF a <= b THEN a ELSE b

\* np.delete(arr, inds) on a 1-D array: drop the listed positions
RECURSIVE NpDelete(_, _)
NpDelete(s, inds) ==
    IF Len(s) = 0 THEN <<>>
    ELSE LET rest == NpDelete(SubSeq(s, 1, Len(s) - 1), inds)
         IN  IF Len(s) \in inds THEN rest ELSE Append(rest, s[Len(s)])

\* a 2-D array flattened in row order (np.delete without axis flattens first)
RECURSIVE Flatten(_)
Flatten(m) == IF Len(m) = 0 THEN <<>> ELSE Head(m) \o Flatten(Tail(m))

\* ---------------------------------------------------------------- remote collection

Row(pk, vector, sample_id) == [pk |-> pk, vector |-> vector, sample_id |-> sample_id]

\* the remote service evaluates  pk in [lits]  on a row
Matches(row, expr) == \E i \in DOMAIN expr.lits : expr.lits[i] = Quote(row.pk)

MatchingRows(rs, expr) == SelectSeq(rs, LAMBDA r : Matches(r, expr))

\* collection.query(expr): the primary keys of the matching rows, as dicts
QueryPks(rs, expr) ==
    LET m == MatchingRows(rs, expr) IN [i \in DOMAIN m |-> [pk |-> m[i].pk]]

\* collection.query(expr, output_fields=["pk", "sample_id", "vector"])
QueryFields(rs, expr) == MatchingRows(rs, expr)

\* collection.delete(expr)
DeleteRows(rs, expr) == SelectSeq(rs, LAMBDA r : ~Matches(r, expr))

\* collection.insert([pks, vectors, sample_ids]) is accepted when the three columns
\* have one length and every entry of the vector column is a vector of the
\* collection's dimension; vecs is [kind, vals], kind "flat" being a column of scalars
InsertAccepted(d, pks, vecs, sids) ==
    /\ vecs.kind = "rows"
    /\ Len(pks) = Len(vecs.vals)
    /\ Len(pks) = Len(sids)
    /\ \A i \in DOMAIN vecs.vals : Len(vecs.vals[i]) = d

\* the accepted rows are appended; the service does not de-duplicate primary
\* keys on insert, so a key that is already stored gets a second row
InsertRows(rs, pks, vecs, sids) ==
    rs \o [i \in DOMAIN pks |-> Row(pks[i], vecs.vals[i], sids[i])]

\* ---------------------------------------------------------------- index helpers

QuoteIds(ids) == [i \in DOMAIN ids |-> Quote(StrOfId(ids[i]))]
QuoteDicts(dicts) == [i \in DOMAIN dicts |-> Quote(StrOfDict(dicts[i]))]

QueryCall(expr) == [op |-> "query", expr |-> expr]
DeleteCall(expr) == [op |-> "delete", expr |-> expr]
InsertCall(pks, vals, sids) == [op |-> "insert", data |-> <<pks, vals, sids>>]
SearchCall(q, expr, limit) == [op |-> "search", data |-> q, expr |-> expr, limit |-> limit]

\* _get_existing_ids(ids): what the remote query returns for  pk in [ids]
_get_existing_ids(rs, ids) == QueryPks(rs, PkInExpr(QuoteIds(ids)))

\* _delete_ids(ids): quoted is ['"' + str(entry) + '"' for entry in ids]
_delete_ids(rs, quoted) == DeleteRows(rs, PkInExpr(quoted))

\* _get_embeddings with the IDs left unquoted in the expression
_get_embeddings_unquoted(rs, ids) == QueryFields(rs, PkInExpr(ids))

\* _get_embeddings(ids)
_get_embeddings(rs, ids) == QueryFields(rs, PkInExpr(QuoteIds(ids)))

\* _create_collection(dimension): an empty, loaded collection of that dimension
_create_collection(dimension) == [has_collection |-> TRUE, dim |-> dimension, rows |-> <<>>]

\* ---------------------------------------------------------------- add_to_index

\* the insert loop of add_to_index over the zipped batches, from batch i on;
\* a rejected insert raises and leaves the earlier batches inserted
RECURSIVE InsertBatches(_, _, _, _, _, _, _)
InsertBatches(d, rs, kind, eb, ib, sb, i) ==
    IF i > Min(Len(eb), Min(Len(ib), Len(sb)))
    THEN [status |-> "ok", rows |-> rs, calls |-> <<>>]
    ELSE LET vecs == [kind |-> kind, vals |-> eb[i]]
             call == InsertCall(ib[i], eb[i], sb[i])
         IN  IF ~InsertAccepted(d, ib[i], vecs, sb[i])
             THEN [status |-> "MilvusException", rows |-> rs, calls |-> <<call>>]
             ELSE LET r == InsertBatches(d, InsertRows(rs, ib[i], vecs, sb[i]),
                                         kind, eb, ib, sb, i + 1)
                  IN  [r EXCEPT !.calls = <<call>> \o @]

\* add_to_index from "if existing_ids and not overwrite" to the end, existing_ids
\* being the dicts the remote query returned (empty when no query was made)
Reconcile(col, embeddings, sample_ids, ids, existing_ids, overwrite, batch_size) ==
    LET skip == Len(existing_ids) > 0 /\ ~overwrite
        replace == Len(existing_ids) > 0 /\ overwrite
        del_inds == {i \in DOMAIN ids : IdInDicts(ids[i], existing_ids)}
        kind == IF skip THEN "flat" ELSE "rows"
        emb == IF skip THEN NpDelete(Flatten(embeddings), del_inds) ELSE embeddings
        sids == IF skip THEN NpDelete(sample_ids, del_inds) ELSE sample_ids
        delexpr == PkInExpr(QuoteDicts(existing_ids))
        rs == IF replace THEN _delete_ids(col.rows, QuoteDicts(existing_ids)) ELSE col.rows
        r == InsertBatches(col.dim, rs, kind, iter_batches(emb, batch_size),
                           iter_batches(ids, batch_size), iter_batches(sids, batch_size), 1)
    IN  [status |-> r.status,
         col |-> [col EXCEPT !.rows = r.rows],
         calls |-> (IF replace THEN <<DeleteCall(delexpr)>> ELSE <<>>) \o r.calls]

\* add_to_index; resolved: whether self.get_existing_ids names _get_existing_ids
\* (the class defines only the latter, so the lookup is left to the base class)
AddToIndex(col0, embeddings, sample_ids, label_ids, overwrite, allow_existing, warn_existing, batch_size, resolved) ==
    LET col == IF col0.has_collection THEN col0
               ELSE _create_collection(Len(embeddings[1]))
        ids == IF ~IsNone(label_ids) THEN Val(label_ids) ELSE sample_ids
        lookup == warn_existing \/ ~allow_existing \/ ~overwrite
        existing_ids == IF lookup THEN _get_existing_ids(col.rows, ids) ELSE <<>>
        qcalls == IF lookup THEN <<QueryCall(PkInExpr(QuoteIds(ids)))>> ELSE <<>>
    IN  IF lookup /\ ~resolved
        THEN [status |-> "AttributeError", col |-> col, calls |-> <<>>]
        ELSE IF Len(existing_ids) > 0 /\ ~allow_existing
        THEN [status |-> "ValueError", col |-> col, calls |-> qcalls]
        ELSE LET r == Reconcile(col, embeddings, sample_ids, ids, existing_ids,
                                overwrite, batch_size)
             IN  [r EXCEPT !.calls = qcalls \o @]

\* ---------------------------------------------------------------- remove_from_index

\* remove_from_index; resolved as in AddToIndex.  set(existing_ids) hashes the
\* dicts the query returned, which raises TypeError as soon as there is one
RemoveFromIndex(rs, sample_ids, label_ids, allow_missing, warn_missing, resolved) ==
    LET ids == IF ~IsNone(label_ids) THEN Val(label_ids) ELSE Val(sample_ids)
        lookup == ~allow_missing \/ warn_missing
        existing_ids == _get_existing_ids(rs, ids)
        qcalls == IF lookup THEN <<QueryCall(PkInExpr(QuoteIds(ids)))>> ELSE <<>>
        \* set(existing_ids) - set(ids), defined when existing_ids is empty
        missing_ids == {e \in Range(existing_ids) : \A i \in DOMAIN ids : ~StrEqDict(ids[i], e)}
        num_missing == Cardinality(missing_ids)
    IN  IF lookup /\ ~resolved
        THEN [status |-> "AttributeError", rows |-> rs, calls |-> <<>>]
        ELSE IF lookup /\ Len(existing_ids) > 0
        THEN [status |-> "TypeError", rows |-> rs, calls |-> qcalls]
        ELSE IF lookup /\ num_missing > 0 /\ ~allow_missing
        THEN \* missing_ids[0] on a set, while building the message
             [status |-> "TypeError", rows |-> rs, calls |-> qcalls]
        ELSE [status |-> "ok",
              rows |-> _delete_ids(rs, QuoteIds(ids)),
              calls |-> Append(qcalls, DeleteCall(PkInExpr(QuoteIds(ids))))]

\* ---------------------------------------------------------------- search

\* a query vector is [num, den]: the vector num / den (den > 1 after a mean)
Plain(v) == [num |-> v, den |-> 1]

RECURSIVE SumOver(_, _)
SumOver(f, n) == IF n = 0 THEN 0 ELSE f[n] + SumOver(f, n - 1)

\* squared L2 distance times den^2, and inner product times den
L2Score(q, v) ==
    SumOver([i \in DOMAIN v |-> (q.den * v[i] - q.num[i]) * (q.den * v[i] - q.num[i])], Len(v))
IPScore(q, v) == SumOver([i \in DOMAIN v |-> v[i] * q.num[i]], Len(v))

Score(metric_type, q, v) == IF metric_type = "L2" THEN L2Score(q, v) ELSE IPScore(q, v)

\* closer first: smaller L2 distance, larger inner product
Closer(metric_type, s, t) == IF metric_type = "L2" THEN s < t ELSE s > t

RECURSIVE InsertHit(_, _, _)
InsertHit(metric_type, sorted, h) ==
    IF Len(sorted) = 0 THEN <<h>>
    ELSE IF Closer(metric_type, h.score, Head(sorted).score)
    THEN <<h>> \o sorted
    ELSE <<Head(sorted)>> \o InsertHit(metric_type, Tail(sorted), h)

RECURSIVE RankHits(_, _)
RankHits(metric_type, hits) ==
    IF Len(hits) = 0 THEN <<>>
    ELSE InsertHit(metric_type, RankHits(metric_type, SubSeq(hits, 1, Len(hits) - 1)),
                   hits[Len(hits)])

\* collection.search(data=[q], anns_field="vector", expr=expr, limit=limit):
\* response[0], the matching rows closest to q, at most limit of them, ranked by
\* the collection's metric (the service's handling of param is not modelled)
Search(rs, metric_type, q, expr, limit) ==
    LET m == MatchingRows(rs, expr)
        hits == [i \in DOMAIN m |-> [id |-> m[i].pk, score |-> Score(metric_type, q, m[i].vector)]]
        ranked == RankHits(metric_type, hits)
    IN  SubSeq(ranked, 1, Min(limit, Len(ranked)))

\* ---------------------------------------------------------------- get_embeddings

SampleBatchSize == 1000
LabelBatchSize == 1000
PatchBatchSize == 100

Column(resp, field) == [i \in DOMAIN resp |-> resp[i][field]]

\* _get_sample_embeddings(sample_ids, batch_size)
RECURSIVE SampleBatches(_, _, _)
SampleBatches(rs, batches, i) ==
    IF i > Len(batches) THEN [resp |-> <<>>, calls |-> <<>>]
    ELSE LET rest == SampleBatches(rs, batches, i + 1)
         IN  [resp |-> _get_embeddings(rs, batches[i]) \o rest.resp,
              calls |-> <<QueryCall(PkInExpr(QuoteIds(batches[i])))>> \o rest.calls]

_get_sample_embeddings(rs, sample_ids, batch_size) ==
    IF IsNone(sample_ids)
    THEN [status |-> "ValueError", calls |-> <<>>]
    ELSE LET f == SampleBatches(rs, iter_batches(Val(sample_ids), batch_size), 1)
             found_sample_ids == Column(f.resp, "sample_id")
         IN  [status |-> "ok",
              embeddings |-> Column(f.resp, "vector"),
              sample_ids |-> found_sample_ids,
              label_ids |-> None,
              missing_ids |-> Range(Val(sample_ids)) \ Range(found_sample_ids),
              calls |-> f.calls]

\* the loop of _get_patch_embeddings_from_sample_ids: a probe search scoped by
\*  pk in [batch] , then the full records of the hits
RECURSIVE PatchBatches(_, _, _, _, _, _)
PatchBatches(rs, metric_type, query_vector, top_k, batches, i) ==
    IF i > Len(batches) THEN [resp |-> <<>>, calls |-> <<>>]
    ELSE LET expr == PkInExpr(QuoteIds(batches[i]))
             hits == Search(rs, metric_type, Plain(query_vector), expr, top_k)
             ids == Column(hits, "id")
             rest == PatchBatches(rs, metric_type, query_vector, top_k, batches, i + 1)
         IN  [resp |-> _get_embeddings(rs, ids) \o rest.resp,
              calls |-> <<SearchCall(query_vector, expr, top_k),
                          QueryCall(PkInExpr(QuoteIds(ids)))>> \o rest.calls]

\* _get_patch_embeddings_from_sample_ids(sample_ids, batch_size); has_get_dim:
\* whether self.get_dim, which the class does not define, is found in the base class
_get_patch_embeddings_from_sample_ids(col, metric_type, sample_ids, batch_size, has_get_dim) ==
    IF ~has_get_dim
    THEN [status |-> "AttributeError", calls |-> <<>>]
    ELSE LET query_vector == [i \in 1..col.dim |-> 0]
             top_k == Min(batch_size, max_k)
             f == PatchBatches(col.rows, metric_type, query_vector, top_k,
                               iter_batches(sample_ids, batch_size), 1)
             found_sample_ids == Column(f.resp, "sample_id")
         IN  [status |-> "ok",
              embeddings |-> Column(f.resp, "vector"),
              sample_ids |-> found_sample_ids,
              label_ids |-> Some(Column(f.resp, "pk")),
              missing_ids |-> Range(sample_ids) \ Range(found_sample_ids),
              calls |-> f.calls]

\* the tail of get_embeddings: the missing-ID policy on what was fetched
MissingPolicy(f, allow_missing) ==
    IF f.status # "ok" THEN f
    ELSE IF Cardinality(f.missing_ids) > 0 /\ ~allow_missing
    THEN [status |-> "ValueError", calls |-> f.calls]
    ELSE f

RECURSIVE GetEmbeddings(_, _, _, _, _, _)

\* the loop of _get_patch_embeddings_from_label_ids: each batch is handed to the
\* public get_embeddings as its first argument (sample_ids); the (embeddings,
\* sample_ids, label_ids) tuple it returns is then iterated and its first item,
\* an array, indexed with "vector"
RECURSIVE LabelBatches(_, _, _, _, _)
LabelBatches(col, cfg, batches, i, has_get_dim) ==
    IF i > Len(batches) THEN [status |-> "ok", calls |-> <<>>]
    ELSE LET response == GetEmbeddings(col, cfg, Some(batches[i]), None, TRUE, has_get_dim)
         IN  IF response.status # "ok"
             THEN [status |-> response.status, calls |-> response.calls]
             ELSE [status |-> "IndexError", calls |-> response.calls]

\* _get_patch_embeddings_from_label_ids(label_ids, batch_size)
_get_patch_embeddings_from_label_ids(col, cfg, label_ids, batch_size, has_get_dim) ==
    IF IsNone(label_ids)
    THEN [status |-> "ValueError", calls |-> <<>>]
    ELSE LET f == LabelBatches(col, cfg, iter_batches(Val(label_ids), batch_size), 1, has_get_dim)
         IN  IF f.status # "ok" THEN f
             ELSE \* no batch: nothing found
                  [status |-> "ok", embeddings |-> <<>>, sample_ids |-> <<>>,
                   label_ids |-> Some(<<>>),
                   missing_ids |-> Range(Val(label_ids)), calls |-> f.calls]

\* get_embeddings(sample_ids, label_ids, allow_missing)
GetEmbeddings(col, cfg, sample_ids, label_ids, allow_missing, has_get_dim) ==
    IF ~IsNone(label_ids) /\ ~cfg.patches_field
    THEN [status |-> "ValueError", calls |-> <<>>]
    ELSE IF ~IsNone(sample_ids) /\ cfg.patches_field
    THEN MissingPolicy(_get_patch_embeddings_from_sample_ids(
             col, cfg.search_params.HNSW.metric_type, Val(sample_ids),
             PatchBatchSize, has_get_dim), allow_missing)
    ELSE IF cfg.patches_field
    THEN MissingPolicy(_get_patch_embeddings_from_label_ids(
             col, cfg, label_ids, LabelBatchSize, has_get_dim), allow_missing)
    ELSE MissingPolicy(_get_sample_embeddings(col.rows, sample_ids, SampleBatchSize),
                       allow_missing)

\* ---------------------------------------------------------------- kneighbors

\* componentwise sum of a non-empty 2-D array's rows
RECURSIVE VecSum(_)
VecSum(vs) ==
    IF Len(vs) = 1 THEN vs[1]
    ELSE LET rest == VecSum(Tail(vs)) IN [i \in DOMAIN vs[1] |-> vs[1][i] + rest[i]]

\* _parse_neighbors_query: the query as an array [ndim, vecs] (ndim 1: one vector,
\* the empty vector for np.array([])); a query is tagged by what the caller passed:
\* "vector" / "vectors" (numeric), "id" (a string), "ids" (a list of IDs)
_parse_neighbors_query(rs, query) ==
    IF query.kind = "vector" THEN [status |-> "ok", ndim |-> 1, vecs |-> <<query.v>>, calls |-> <<>>]
    ELSE IF query.kind = "vectors" THEN [status |-> "ok", ndim |-> 2, vecs |-> query.vs, calls |-> <<>>]
    ELSE LET query_ids == IF query.kind = "id" THEN <<query.id>> ELSE query.ids
             single_query == query.kind = "id"
             response == _get_embeddings(rs, query_ids)
             calls == <<QueryCall(PkInExpr(QuoteIds(query_ids)))>>
         IN  IF Len(response) = 0
             THEN IF single_query
                  THEN \* query[0, :] on an empty 1-D array
                       [status |-> "IndexError", calls |-> calls]
                  ELSE [status |-> "ok", ndim |-> 1, vecs |-> << <<>> >>, calls |-> calls]
             ELSE IF single_query
                  THEN [status |-> "ok", ndim |-> 1, vecs |-> <<response[1].vector>>, calls |-> calls]
                  ELSE [status |-> "ok", ndim |-> 2, vecs |-> Column(response, "vector"), calls |-> calls]

\* the search loop of _kneighbors over the query vectors qs, from the i-th on
RECURSIVE SearchAll(_, _, _, _, _, _)
SearchAll(col, metric_type, qs, k, expr, i) ==
    IF i > Len(qs) THEN [status |-> "ok", ids |-> <<>>, dists |-> <<>>, calls |-> <<>>]
    ELSE LET call == SearchCall(qs[i], expr, k)
         IN  IF Len(qs[i].num) # col.dim
             THEN [status |-> "MilvusException", calls |-> <<call>>]
             ELSE LET response == Search(col.rows, metric_type, qs[i], expr, k)
                      rest == SearchAll(col, metric_type, qs, k, expr, i + 1)
                  IN  IF rest.status # "ok"
                      THEN [rest EXCEPT !.calls = <<call>> \o @]
                      ELSE [status |-> "ok",
                            ids |-> <<Column(response, "id")>> \o rest.ids,
                            dists |-> <<Column(response, "score")>> \o rest.dists,
                            calls |-> <<call>> \o rest.calls]

\* the argument checks with the bound on k off by one
KneighborsRejectsOffByOne(query, k, reverse, aggregation) ==
    \/ query.kind = "none"
    \/ reverse = TRUE
    \/ IsNone(k)
    \/ Val(k) > max_k + 1
    \/ aggregation \notin {None, Some("mean")}

\* the argument checks at the head of _kneighbors: whether one of them raises
KneighborsRejects(query, k, reverse, aggregation) ==
    \/ query.kind = "none"
    \/ reverse = TRUE
    \/ IsNone(k)
    \/ Val(k) > max_k
    \/ aggregation \notin {None, Some("mean")}

\* a filter that names every ID the index may hold instead of the live ones
IndexExprUnscoped(index_ids) == PkInExpr(QuoteIds(SetToSeq(SampleIds \cup LabelIds)))

\* the filter of every search of _kneighbors:  pk in [index_ids]
IndexExpr(index_ids) == PkInExpr(QuoteIds(index_ids))

\* _kneighbors(query, k, reverse, aggregation, return_dists); index_ids is
\* self.current_label_ids / self.current_sample_ids as the host gives it at the call
Kneighbors(col, cfg, query, k, reverse, aggregation, return_dists, index_ids) ==
    IF KneighborsRejects(query, k, reverse, aggregation)
    THEN [status |-> "ValueError", calls |-> <<>>]
    ELSE IF ~col.has_collection
    THEN [status |-> "MilvusException", calls |-> <<>>]
    ELSE LET parsed == _parse_neighbors_query(col.rows, query)
         IN  IF parsed.status # "ok" THEN parsed
             ELSE LET mean == aggregation = Some("mean") /\ parsed.ndim = 2
                      single_query == mean \/ parsed.ndim = 1
                      qs == IF mean
                            THEN <<[num |-> VecSum(parsed.vecs), den |-> Len(parsed.vecs)]>>
                            ELSE [i \in DOMAIN parsed.vecs |-> Plain(parsed.vecs[i])]
                      expr == IndexExpr(index_ids)
                      metric_type == cfg.search_params.HNSW.metric_type
                      r == SearchAll(col, metric_type, qs, Val(k), expr, 1)
                  IN  IF r.status # "ok"
                      THEN [status |-> r.status, calls |-> parsed.calls \o r.calls]
                      ELSE [status |-> "ok",
                            single_query |-> single_query,
                            ids |-> r.ids,
                            dists |-> IF return_dists THEN Some(r.dists) ELSE None,
                            calls |-> parsed.calls \o r.calls]

\* ---------------------------------------------------------------- specification

Idle == [op |-> "none"]

Col == [has_collection |-> has_collection, dim |-> dim, rows |-> rows]

\* the effective IDs (primary keys) of the index: label IDs with a patches field
IndexIds == IF config.patches_field THEN LabelIds ELSE SampleIds

BatchSizes == {1, 100}

Init ==
    /\ config = [status |-> "unset"]
    /\ has_collection = FALSE
    /\ dim = 0
    /\ rows = <<>>
    /\ last = Idle

\* MilvusSimilarityConfig(metric=..., patches_field=...)
Construct ==
    /\ config.status = "unset"
    /\ \E metric \in MetricArgs, patches_field \in BOOLEAN :
          /\ config' = ConfigInit(metric, patches_field)
          /\ last' = [op |-> "construct", metric |-> metric, patches_field |-> patches_field]
    /\ UNCHANGED <<has_collection, dim, rows>>

add_to_index ==
    /\ config.status = "ok"
    /\ last = Idle
    /\ \E ids \in NonEmptySeqs(IndexIds, MaxBatch),
          skip \in BOOLEAN, forbid_existing \in BOOLEAN, warn_existing \in BOOLEAN,
          batch_size \in BatchSizes, unresolved \in BOOLEAN :
          \E embeddings \in [DOMAIN ids -> Vectors] :
             LET overwrite == ~skip
                 allow_existing == ~forbid_existing
                 resolved == ~unresolved
                 sample_ids == IF config.patches_field
                               THEN [i \in DOMAIN ids |-> OwnerOf(ids[i])] ELSE ids
                 label_ids == IF config.patches_field THEN Some(ids) ELSE None
                 r == AddToIndex(Col, embeddings, sample_ids, label_ids, overwrite,
                                 allow_existing, warn_existing, batch_size, resolved)
             IN  /\ Len(r.col.rows) <= MaxRows
                 /\ has_collection' = r.col.has_collection
                 /\ dim' = r.col.dim
                 /\ rows' = r.col.rows
                 /\ last' = [op |-> "add_to_index", before |-> rows,
                             embeddings |-> embeddings, sample_ids |-> sample_ids,
                             label_ids |-> label_ids, overwrite |-> overwrite,
                             allow_existing |-> allow_existing,
                             warn_existing |-> warn_existing, batch_size |-> batch_size,
                             status |-> r.status, calls |-> r.calls]
    /\ UNCHANGED config

\* IDs the caller asks about: those of the index, in lists of at most MaxBatch
IdLists == NonEmptySeqs(IndexIds, MaxBatch)

remove_from_index ==
    /\ config.status = "ok"
    /\ last = Idle
    /\ has_collection
    /\ \E ids \in IdLists, allow_missing \in BOOLEAN, warn_missing \in BOOLEAN,
          unresolved \in BOOLEAN :
          LET resolved == ~unresolved
              sample_ids == IF config.patches_field THEN None ELSE Some(ids)
              label_ids == IF config.patches_field THEN Some(ids) ELSE None
              r == RemoveFromIndex(rows, sample_ids, label_ids, allow_missing,
                                   warn_missing, resolved)
          IN  /\ rows' = r.rows
              /\ last' = [op |-> "remove_from_index", before |-> rows, sample_ids |-> sample_ids,
                          label_ids |-> label_ids, allow_missing |-> allow_missing,
                          warn_missing |-> warn_missing,
                          status |-> r.status, calls |-> r.calls]
    /\ UNCHANGED <<config, has_collection, dim>>

\* optional ID lists a caller of get_embeddings passes
OptSampleIds == {None} \cup {Some(s) : s \in NonEmptySeqs(SampleIds, MaxBatch)}
OptLabelIds == {None} \cup {Some(s) : s \in NonEmptySeqs(LabelIds, MaxBatch)}

get_embeddings ==
    /\ config.status = "ok"
    /\ last = Idle
    /\ has_collection
    /\ \E sample_ids \in OptSampleIds, label_ids \in OptLabelIds,
          allow_missing \in BOOLEAN, unresolved \in BOOLEAN :
          LET has_get_dim == ~unresolved
              r == GetEmbeddings(Col, config, sample_ids, label_ids, allow_missing,
                                 has_get_dim)
          IN  /\ last' = [op |-> "get_embeddings", sample_ids |-> sample_ids,
                          label_ids |-> label_ids, allow_missing |-> allow_missing,
                          result |-> r]
    /\ UNCHANGED <<config, has_collection, dim, rows>>

\* queries a caller of kneighbors passes
Queries ==
    {[kind |-> "none"]}
    \cup {[kind |-> "vector", v |-> v] : v \in Vectors}
    \cup {[kind |-> "vectors", vs |-> vs] : vs \in [1..2 -> Vectors]}
    \cup {[kind |-> "id", id |-> id] : id \in IndexIds}
    \cup {[kind |-> "ids", ids |-> ids] : ids \in NonEmptySeqs(IndexIds, 2)}

KArgs == {None, Some(1), Some(max_k), Some(max_k + 1)}
AggregationArgs == {None, Some("mean"), Some("max")}

\* the live ID sets the host may report, each in one fixed order
LiveIdLists == {SetToSeq(S) : S \in SUBSET IndexIds}

kneighbors ==
    /\ config.status = "ok"
    /\ last = Idle
    /\ \E query \in Queries, k \in KArgs, reverse \in BOOLEAN,
          aggregation \in AggregationArgs, return_dists \in BOOLEAN,
          index_ids \in LiveIdLists :
          LET r == Kneighbors(Col, config, query, k, reverse, aggregation,
                              return_dists, index_ids)
          IN  last' = [op |-> "kneighbors", query |-> query, k |-> k,
                       reverse |-> reverse, aggregation |-> aggregation,
                       return_dists |-> return_dists, index_ids |-> index_ids,
                       result |-> r]
    /\ UNCHANGED <<config, has_collection, dim, rows>>

\* the call returns (or raises) to the caller
Return ==
    /\ last # Idle
    /\ config.status = "ok"
    /\ last' = Idle
    /\ UNCHANGED <<config, has_collection, dim, rows>>

Next ==
    \/ Construct
    \/ add_to_index
    \/ remove_from_index
    \/ get_embeddings
    \/ kneighbors
    \/ Return

Spec == Init /\ [][Next]_vars

\* ---------------------------------------------------------------- properties

Pks(rs) == {rs[i].pk : i \in DOMAIN rs}
RowsWithPk(rs, x) == SelectSeq(rs, LAMBDA r : r.pk = x)
Occurrences(s, x) == Cardinality({i \in DOMAIN s : s[i] = x})

\* the effective IDs of the last add_to_index / remove_from_index call
EffectiveIds == IF ~IsNone(last.label_ids) THEN Val(last.label_ids)
                ELSE IF last.op = "add_to_index" THEN last.sample_ids
                ELSE Val(last.sample_ids)

IsCall(name) == last.op = name

RemoteWrites(calls) == {i \in DOMAIN calls : calls[i].op \in {"insert", "delete"}}

\* C1: after add_to_index with overwrite=True and allow_existing=True (any
\* warn_existing), every supplied ID that was already stored has exactly one row,
\* and that row holds the supplied vector.
C1_OverwriteLeavesOneRow ==
    (IsCall("add_to_index") /\ last.overwrite /\ last.allow_existing) =>
        \A i \in DOMAIN EffectiveIds :
            (EffectiveIds[i] \in Pks(last.before) /\ Occurrences(EffectiveIds, EffectiveIds[i]) = 1)
            => RowsWithPk(rows, EffectiveIds[i])
                  = <<Row(EffectiveIds[i], last.embeddings[i], last.sample_ids[i])>>

\* C2: after add_to_index with overwrite=False and allow_existing=True that
\* supplies an ID already stored, the rows of every stored ID are the ones it had
\* before (original kept, no second row), and every supplied row whose ID was not
\* stored is in the collection.
C2_SkipKeepsOriginal ==
    (/\ IsCall("add_to_index") /\ ~last.overwrite /\ last.allow_existing
     /\ Range(EffectiveIds) \cap Pks(last.before) # {}) =>
        /\ \A x \in Range(EffectiveIds) \cap Pks(last.before) :
               RowsWithPk(rows, x) = RowsWithPk(last.before, x)
        /\ \A i \in DOMAIN EffectiveIds :
               EffectiveIds[i] \notin Pks(last.before)
               => \E j \in DOMAIN rows :
                     rows[j] = Row(EffectiveIds[i], last.embeddings[i], last.sample_ids[i])

\* C3: add_to_index with allow_existing=False on an effective ID already stored
\* raises ValueError, issues no remote delete or insert, and leaves the rows as
\* they were.
C3_DuplicateRejected ==
    (/\ IsCall("add_to_index") /\ ~last.allow_existing
     /\ Range(EffectiveIds) \cap Pks(last.before) # {}) =>
        /\ last.status = "ValueError"
        /\ RemoteWrites(last.calls) = {}
        /\ rows = last.before

\* C4: remove_from_index with allow_missing=False raises ValueError and deletes
\* nothing when a requested ID is not stored, and deletes exactly the requested
\* IDs when all of them are stored.
C4_MissingRejected ==
    (IsCall("remove_from_index") /\ ~last.allow_missing) =>
        IF Range(EffectiveIds) \ Pks(last.before) # {}
        THEN last.status = "ValueError" /\ rows = last.before
        ELSE /\ last.status = "ok"
             /\ rows = SelectSeq(last.before, LAMBDA r : r.pk \notin Range(EffectiveIds))

SearchCalls(calls) == {calls[i] : i \in {j \in DOMAIN calls : calls[j].op = "search"}}

\* C5: kneighbors raises ValueError, without any remote call, whenever query is
\* None, reverse is true, k is None, k > 16384, or aggregation is neither None nor
\* "mean", whatever the other arguments are.
C5_KneighborsValidates ==
    (/\ IsCall("kneighbors")
     /\ \/ last.query.kind = "none"
        \/ last.reverse
        \/ last.k = None
        \/ (last.k # None /\ last.k[1] > 16384)
        \/ (last.aggregation # None /\ last.aggregation[1] # "mean")) =>
        /\ last.result.status = "ValueError"
        /\ last.result.calls = <<>>

\* a k above the limit was rejected although every other argument was valid
C5_Witness ==
    /\ IsCall("kneighbors")
    /\ last.query.kind = "vector" /\ ~last.reverse /\ last.aggregation = None
    /\ last.k = Some(16385)
    /\ Len(rows) > 0
    /\ last.result.status = "ValueError"

\* C6: every search kneighbors issues is filtered on pk by exactly the live IDs
\* the host reported for the call, and every ID it returns is a live ID that has
\* a row in the collection.
C6_SearchScopedToLiveIds ==
    IsCall("kneighbors") =>
        /\ \A c \in SearchCalls(last.result.calls) :
              /\ c.expr.field = "pk"
              /\ {c.expr.lits[i] : i \in DOMAIN c.expr.lits}
                    = {"\"" \o id \o "\"" : id \in Range(last.index_ids)}
        /\ last.result.status = "ok" =>
              \A i \in DOMAIN last.result.ids :
                  Range(last.result.ids[i]) \subseteq Range(last.index_ids) \cap Pks(rows)

\* a search returned neighbours while a stored ID was outside the live set
C6_Witness ==
    /\ IsCall("kneighbors")
    /\ last.result.status = "ok"
    /\ Pks(rows) \ Range(last.index_ids) # {}
    /\ last.k = Some(16384)
    /\ \E i \in DOMAIN last.result.ids : Len(last.result.ids[i]) > 0

\* C7: get_embeddings with both label_ids and sample_ids on a patches index is a
\* direct lookup filtered by exactly the given label_ids, and returns only rows
\* whose primary key is one of them.
C7_LabelIdsTakePrecedence ==
    (/\ IsCall("get_embeddings") /\ config.patches_field
     /\ last.label_ids # None /\ last.sample_ids # None) =>
        /\ last.result.calls = <<QueryCall(PkInExpr(QuoteIds(Val(last.label_ids))))>>
        /\ last.result.status = "ok" =>
              Range(Val(last.result.label_ids)) \subseteq Range(Val(last.label_ids))

\* the requested IDs of a get_embeddings call that names one kind of ID, the one
\* its index is keyed by or, on a patches index, sample IDs alone
OneModeCall ==
    /\ IsCall("get_embeddings")
    /\ IF config.patches_field
       THEN (last.label_ids = None) # (last.sample_ids = None)
       ELSE last.label_ids = None /\ last.sample_ids # None

RequestedIds == IF last.label_ids # None THEN Val(last.label_ids) ELSE Val(last.sample_ids)

\* C8: in each retrieval mode get_embeddings raises ValueError exactly when a
\* requested ID has no fetched row and allow_missing is false, and otherwise
\* returns the vectors, sample IDs and label IDs of exactly the fetched rows, with
\* missing_ids the requested IDs that have none.
C8_MissingIdsPolicy ==
    OneModeCall =>
        LET found == SelectSeq(rows, LAMBDA r : r.pk \in Range(RequestedIds))
            found_ids == IF last.label_ids # None
                         THEN {found[i].pk : i \in DOMAIN found}
                         ELSE {found[i].sample_id : i \in DOMAIN found}
            missing == Range(RequestedIds) \ found_ids
            r == last.result
        IN  /\ r.status \in {"ok", "ValueError"}
            /\ r.status = "ValueError" <=> (missing # {} /\ ~last.allow_missing)
            /\ r.status = "ok" =>
                  /\ r.missing_ids = missing
                  /\ r.embeddings = [i \in DOMAIN found |-> found[i].vector]
                  /\ r.sample_ids = [i \in DOMAIN found |-> found[i].sample_id]
                  /\ config.patches_field =>
                        r.label_ids = Some([i \in DOMAIN found |-> found[i].pk])

\* C9: constructing the config raises ValueError for every metric other than
\* "dotproduct" and "euclidean" (None included); for these two it succeeds with
\* index_params HNSW, {M: 8, efConstruction: 64}, metric type IP / L2, and
\* search_params {ef: 10} with the same metric type.
C9_MetricValidated ==
    IsCall("construct") =>
        IF last.metric \in {Some("dotproduct"), Some("euclidean")}
        THEN LET mt == IF last.metric = Some("dotproduct") THEN "IP" ELSE "L2"
             IN  /\ config.status = "ok"
                 /\ config.index_params
                       = [metric_type |-> mt, index_type |-> "HNSW",
                          params |-> [M |-> 8, efConstruction |-> 64]]
                 /\ config.search_params
                       = [HNSW |-> [metric_type |-> mt, params |-> [ef |-> 10]]]
        ELSE config.status = "ValueError"

\* a supplied row of the last add_to_index whose ID was not stored before and
\* occurs once among the supplied IDs
FreshRow(i) ==
    /\ last.sample_ids[i] \notin Pks(last.before)
    /\ Occurrences(last.sample_ids, last.sample_ids[i]) = 1

\* C10: on an index without a patches field, once add_to_index has inserted
\* embedding E under a sample ID that was not stored, get_embeddings of that ID
\* returns exactly one row, with vector E and that sample ID, and nothing missing.
C10_RoundTrip ==
    (IsCall("add_to_index") /\ ~config.patches_field /\ last.status = "ok") =>
        \A i \in DOMAIN last.sample_ids :
            FreshRow(i) =>
                LET r == GetEmbeddings(Col, config, Some(<<last.sample_ids[i]>>), None,
                                       FALSE, TRUE)
                IN  /\ r.status = "ok"
                    /\ r.embeddings = <<last.embeddings[i]>>
                    /\ r.sample_ids = <<last.sample_ids[i]>>
                    /\ r.missing_ids = {}

\* two fresh rows with different vectors were inserted next to a stored row
C10_Witness ==
    /\ IsCall("add_to_index") /\ ~config.patches_field /\ last.status = "ok"
    /\ \E i \in DOMAIN last.sample_ids :
          /\ FreshRow(i)
          /\ Len(rows) > 1
          /\ \E j \in DOMAIN rows : rows[j].vector # last.embeddings[i]

InsertCalls(calls) == SelectSeq(calls, LAMBDA c : c.op = "insert")

\* column k of the insert calls, one after the other
RECURSIVE ConcatColumn(_, _)
ConcatColumn(calls, k) ==
    IF Len(calls) = 0 THEN <<>> ELSE Head(calls).data[k] \o ConcatColumn(Tail(calls), k)

\* the input rows add_to_index is to insert: all of them with overwrite, those
\* whose effective ID was not stored without it
RemainingInds ==
    {i \in DOMAIN EffectiveIds : last.overwrite \/ EffectiveIds[i] \notin Pks(last.before)}

\* the entries of s at the positions in inds, in order
RECURSIVE Keep(_, _)
Keep(s, inds) ==
    IF Len(s) = 0 THEN <<>>
    ELSE LET front == Keep(SubSeq(s, 1, Len(s) - 1), inds)
         IN  IF Len(s) \in inds THEN Append(front, s[Len(s)]) ELSE front

\* the last call is an add_to_index that got past reconciliation to its inserts
ReachedInserts ==
    /\ IsCall("add_to_index")
    /\ last.status \notin {"AttributeError", "ValueError"}

\* C11: after reconciliation add_to_index inserts the remaining rows in batches
\* of at most batch_size; every insert call has three columns of one length, the
\* i-th entries of the three columns come from one input row, and over the call
\* each remaining row is inserted exactly once and no skipped row is inserted,
\* also when overwrite=False dropped rows and when label_ids is given.
C11_BatchedParallelColumns ==
    ReachedInserts =>
        LET ins == InsertCalls(last.calls)
        IN  /\ last.status = "ok"
            /\ \A j \in DOMAIN ins :
                  /\ Len(ins[j].data[1]) <= last.batch_size
                  /\ Len(ins[j].data[1]) = Len(ins[j].data[2])
                  /\ Len(ins[j].data[1]) = Len(ins[j].data[3])
            /\ ConcatColumn(ins, 1) = Keep(EffectiveIds, RemainingInds)
            /\ ConcatColumn(ins, 3) = Keep(last.sample_ids, RemainingInds)
            /\ ConcatColumn(ins, 2) = Keep(last.embeddings, RemainingInds)

\* the same statement for the calls in which no supplied row is to be skipped
\* (overwrite, or no supplied ID stored): it holds there, label_ids included
C11_WhenNothingSkipped ==
    (ReachedInserts /\ RemainingInds = DOMAIN EffectiveIds) => C11_BatchedParallelColumns

====
